---- MODULE Spec2Model ----
(***************************************************************************)
(* State-machine model of the eco web front-end (eco/views.py,             *)
(* eco/services.py, eco/urls.py).  One browser session issues requests to  *)
(* the routes of urls.py; every request runs one view handler to its end.  *)
(* The upstream books API is the environment: each upstream call answers   *)
(* with a transport failure or with a status code and a body, chosen from  *)
(* small sets.                                                             *)
(***************************************************************************)
EXTENDS Integers, Sequences, FiniteSets, TLC

(***************************************************************************)
(* Bounds of the model.                                                    *)
(***************************************************************************)
\* largest book id used in a path /book/<id>/
MaxBookId == 2
\* longest favorites / books list the upstream answers with
MaxListLen == 2
\* most flash messages left undisplayed in the message storage
MaxPending == 2

(***************************************************************************)
(* Python values.  None, strings and the user_data mapping are tagged so   *)
(* that a key holding None differs from a missing key.                     *)
(***************************************************************************)
PyNone == [t |-> "None", s |-> ""]
PyStr(s) == [t |-> "str", s |-> s]
UserData(u) == [t |-> "dict", s |-> u]

\* Python truth value of a session value: None and "" are falsy.
Truthy(v) == v.t # "None" /\ ~(v.t = "str" /\ v.s = "")

\* request.session.get(key): the stored value, None when the key is missing.
SessionGet(sess, key) == IF key \in DOMAIN sess THEN sess[key] ELSE PyNone

\* mutant: a write to user_data is lost
SessionSet_TokenOnly(sess, key, value) ==
    IF key = "user_data" THEN sess
    ELSE [k \in (DOMAIN sess) \cup {key} |-> IF k = key THEN value ELSE sess[k]]

\* request.session[key] = value
SessionSet(sess, key, value) ==
    [k \in (DOMAIN sess) \cup {key} |-> IF k = key THEN value ELSE sess[k]]

\* request.session.flush(): every key is removed.
SessionFlush == [k \in {} |-> PyNone]

(***************************************************************************)
(* Flash message texts of views.py (accents dropped).                      *)
(***************************************************************************)
MsgIndexError == "No se pudo conectar con el catalogo de libros."
MsgLoginOk == "Sesion iniciada correctamente!"
MsgLoginBad == "Usuario o contrasena incorrectos."
MsgRegisterOk == "Cuenta creada con exito. Por favor inicia sesion."
MsgRegisterError == "Error al registrar usuario."
MsgLogout == "Has cerrado sesion correctamente."
MsgNotFound == "Libro no encontrado."
MsgFavLogin == "Debes iniciar sesion para ver tus favoritos."
MsgFavError == "Error al cargar favoritos."
MsgToggleLogin == "Inicia sesion para guardar favoritos."
MsgToggleDefault == "Accion realizada"
MsgToggleError == "No se pudo actualizar favoritos."

Flash(level, text) == [level |-> level, text |-> text]

(***************************************************************************)
(* Upstream answers.                                                       *)
(***************************************************************************)
\* api_post / api_get was not called by the handler
NotCalled == [t |-> "notcalled"]
\* the None that api_get and api_post return for a requests.RequestException
NoResponse == [t |-> "None"]

Statuses == {200, 201, 401, 500}

\* A body is not JSON, a JSON list, or a JSON object with optional token and
\* message members and an optional error detail.
NonJsonBody == [t |-> "nonjson"]
JsonListBody == [t |-> "list"]
JsonObject(hasToken, token, hasMessage, message, errors) ==
    [t |-> "dict", hasToken |-> hasToken, token |-> token,
     hasMessage |-> hasMessage, message |-> message, errors |-> errors]
EmptyObject == JsonObject(FALSE, PyNone, FALSE, "", "")
TokenObject(token) == JsonObject(TRUE, token, FALSE, "", "")
MessageObject(m) == JsonObject(FALSE, PyNone, TRUE, m, "")
ErrorObject(e) == JsonObject(FALSE, PyNone, FALSE, "", e)

Response(status, body) == [t |-> "response", status_code |-> status, body |-> body]
\* requests raised a RequestException (connection refused, timeout, ...)
TransportError == [t |-> "error"]

\* bool(response): None is falsy; requests.Response.__bool__ is Response.ok,
\* false for every 4xx and 5xx status.
ResponseTruthy(r) == r.t = "response" /\ r.status_code < 400

\* response.json() succeeds exactly when the body is JSON.
JsonParses(r) == r.body.t # "nonjson"
\* data.get(...) exists exactly when the decoded body is a mapping.
IsMapping(r) == r.body.t = "dict"

\* str(response.json()) for the bodies of the model
StrOfJson(body) ==
    CASE body.t = "list" -> "[]"
      [] body.t = "dict" /\ body.hasToken -> "{'token': ...}"
      [] body.t = "dict" /\ body.hasMessage -> "{'message': '" \o body.message \o "'}"
      [] body.t = "dict" /\ body.errors # "" -> "{'username': ['" \o body.errors \o "']}"
      [] OTHER -> "{}"

(***************************************************************************)
(* Payloads of GET endpoints: JSON null, a book object (possibly empty),   *)
(* or a list of entries.  An entry carries an integer id, a string id or   *)
(* no id member.                                                           *)
(***************************************************************************)
JsonNull == [t |-> "None"]
BookObject(id) == [t |-> "dict", empty |-> FALSE, id |-> id]
EmptyBook == [t |-> "dict", empty |-> TRUE, id |-> 0]
ListPayload(items) == [t |-> "list", items |-> items]
Entry(idk, id) == [idk |-> idk, id |-> id]

\* Python truth value of an api_get result: None, {} and [] are falsy.
PayloadTruthy(p) ==
    CASE p.t = "None" -> FALSE
      [] p.t = "dict" -> ~p.empty
      [] p.t = "list" -> Len(p.items) > 0
      [] OTHER -> FALSE

(***************************************************************************)
(* services.py                                                             *)
(***************************************************************************)
\* Whether the installed requests raises its own JSONDecodeError, a
\* RequestException (requests 2.27 and later), from response.json(), or a
\* plain ValueError (earlier releases).  The repository pins no version: the
\* build decides, and the value never changes afterwards.
VARIABLE json_error_is_request_exception

\* api_get did not return: response.json() raised past its except clause
Raised == [t |-> "raise"]

\* api_get: None for a RequestException, which raise_for_status() raises for
\* every 4xx/5xx status; the decoded payload otherwise.  A 2xx body that is
\* not JSON makes response.json() raise, which the except clause catches or
\* not as the build decides.
api_get(raw) ==
    IF raw.t = "error" THEN NoResponse
    ELSE IF raw.status_code >= 400 THEN NoResponse
    ELSE IF raw.body.t = "nonjson"
    THEN IF json_error_is_request_exception THEN NoResponse ELSE Raised
    ELSE raw.body

\* mutant: api_post calls raise_for_status() as api_get does
api_post_RaiseForStatus(raw) ==
    IF raw.t = "error" THEN NoResponse
    ELSE IF raw.status_code >= 400 THEN NoResponse
    ELSE raw

\* api_post: None for a RequestException, the response object otherwise.
api_post(raw) == IF raw.t = "error" THEN NoResponse ELSE raw

Call(verb, endpoint, raw) == [verb |-> verb, endpoint |-> endpoint, raw |-> raw]

(***************************************************************************)
(* forms.py                                                                *)
(***************************************************************************)
Form(username, email, password) ==
    [username |-> username, email |-> email, password |-> password]
ValidEmails == {"alice@example.com"}
\* LoginForm.is_valid()
LoginFormIsValid(form) == form.username # "" /\ form.password # ""
\* RegisterForm.is_valid()
RegisterFormIsValid(form) ==
    form.username # "" /\ form.password # "" /\ form.email \in ValidEmails

(***************************************************************************)
(* What a handler run produces: the session it leaves, how it ended        *)
(* (render of a template, redirect to a route, or an escaped exception),   *)
(* the flash messages it added, the upstream calls it made and the values  *)
(* it put in the template context.                                         *)
(***************************************************************************)
Base(sess) ==
    [session |-> sess, kind |-> "none", target |-> "", arg |-> 0,
     flashed |-> <<>>, calls |-> <<>>, formValidated |-> FALSE,
     resp |-> NotCalled, book |-> NotCalled, favs |-> NotCalled,
     books |-> NotCalled, ctxBooks |-> <<>>, is_favorite |-> FALSE,
     user |-> PyNone]

Render(r, template) == [r EXCEPT !.kind = "render", !.target = template]
Redirect(r, route, arg) == [r EXCEPT !.kind = "redirect", !.target = route, !.arg = arg]
Raise(r, exc) == [r EXCEPT !.kind = "exception", !.target = exc]
AddFlash(r, level, text) == [r EXCEPT !.flashed = Append(@, Flash(level, text))]

(***************************************************************************)
(* views.py                                                                *)
(***************************************************************************)
\* mutant: a failed fetch renders the empty catalog without a message
index_SilentFailure(sess, raw) ==
    LET books == api_get(raw)
        r0 == [Base(sess) EXCEPT !.calls = <<Call("GET", "local/", raw)>>,
                                 !.books = books,
                                 !.user = SessionGet(sess, "user_data")]
    IN  IF books.t = "raise" THEN Raise([r0 EXCEPT !.user = PyNone], "ValueError")
        ELSE IF books.t = "None"
        THEN Render(r0, "index.html")
        ELSE Render([r0 EXCEPT !.ctxBooks = books.items], "index.html")

\* index(request)
index(sess, raw) ==
    LET books == api_get(raw)
        r0 == [Base(sess) EXCEPT !.calls = <<Call("GET", "local/", raw)>>,
                                 !.books = books,
                                 !.user = SessionGet(sess, "user_data")]
    IN  IF books.t = "raise" THEN Raise([r0 EXCEPT !.user = PyNone], "ValueError")
        ELSE IF books.t = "None"
        THEN Render(AddFlash(r0, "error", MsgIndexError), "index.html")
        ELSE Render([r0 EXCEPT !.ctxBooks = books.items], "index.html")

\* mutant: the already-logged-in check is made for GET requests only
login_view_GateOnGet(sess, method, form, raw) ==
    IF method = "GET" /\ Truthy(SessionGet(sess, "auth_token"))
    THEN Redirect(Base(sess), "index", 0)
    ELSE IF method = "POST"
    THEN IF LoginFormIsValid(form)
         THEN LET response == api_post(raw)
                  r0 == [Base(sess) EXCEPT !.formValidated = TRUE,
                                           !.calls = <<Call("POST", "login/", raw)>>,
                                           !.resp = response]
              IN  IF ResponseTruthy(response) /\ response.status_code = 200
                  THEN IF ~JsonParses(response) THEN Raise(r0, "JSONDecodeError")
                       ELSE IF ~IsMapping(response) THEN Raise(r0, "AttributeError")
                       ELSE LET data == response.body
                                token == IF data.hasToken THEN data.token ELSE PyNone
                                s1 == SessionSet(sess, "auth_token", token)
                                s2 == SessionSet(s1, "user_data", UserData(form.username))
                            IN  Redirect(AddFlash([r0 EXCEPT !.session = s2],
                                                  "success", MsgLoginOk),
                                         "index", 0)
                  ELSE Render(AddFlash(r0, "error", MsgLoginBad), "login.html")
         ELSE Render([Base(sess) EXCEPT !.formValidated = TRUE], "login.html")
    ELSE Render(Base(sess), "login.html")

\* mutant: every truthy response counts as a successful login
login_view_AnyStatus(sess, method, form, raw) ==
    IF Truthy(SessionGet(sess, "auth_token"))
    THEN Redirect(Base(sess), "index", 0)
    ELSE IF method = "POST"
    THEN IF LoginFormIsValid(form)
         THEN LET response == api_post(raw)
                  r0 == [Base(sess) EXCEPT !.formValidated = TRUE,
                                           !.calls = <<Call("POST", "login/", raw)>>,
                                           !.resp = response]
              IN  IF ResponseTruthy(response)
                  THEN IF ~JsonParses(response) THEN Raise(r0, "JSONDecodeError")
                       ELSE IF ~IsMapping(response) THEN Raise(r0, "AttributeError")
                       ELSE LET data == response.body
                                token == IF data.hasToken THEN data.token ELSE PyNone
                                s1 == SessionSet(sess, "auth_token", token)
                                s2 == SessionSet(s1, "user_data", UserData(form.username))
                            IN  Redirect(AddFlash([r0 EXCEPT !.session = s2],
                                                  "success", MsgLoginOk),
                                         "index", 0)
                  ELSE Render(AddFlash(r0, "error", MsgLoginBad), "login.html")
         ELSE Render([Base(sess) EXCEPT !.formValidated = TRUE], "login.html")
    ELSE Render(Base(sess), "login.html")

\* login_view(request)
login_view(sess, method, form, raw) ==
    IF Truthy(SessionGet(sess, "auth_token"))
    THEN Redirect(Base(sess), "index", 0)
    ELSE IF method = "POST"
    THEN IF LoginFormIsValid(form)
         THEN LET response == api_post(raw)
                  r0 == [Base(sess) EXCEPT !.formValidated = TRUE,
                                           !.calls = <<Call("POST", "login/", raw)>>,
                                           !.resp = response]
              IN  IF ResponseTruthy(response) /\ response.status_code = 200
                  THEN IF ~JsonParses(response) THEN Raise(r0, "JSONDecodeError")
                       ELSE IF ~IsMapping(response) THEN Raise(r0, "AttributeError")
                       ELSE LET data == response.body
                                token == IF data.hasToken THEN data.token ELSE PyNone
                                s1 == SessionSet(sess, "auth_token", token)
                                s2 == SessionSet(s1, "user_data", UserData(form.username))
                            IN  Redirect(AddFlash([r0 EXCEPT !.session = s2],
                                                  "success", MsgLoginOk),
                                         "index", 0)
                  ELSE Render(AddFlash(r0, "error", MsgLoginBad), "login.html")
         ELSE Render([Base(sess) EXCEPT !.formValidated = TRUE], "login.html")
    ELSE Render(Base(sess), "login.html")

\* register_view(request)
register_view(sess, method, form, raw) ==
    IF Truthy(SessionGet(sess, "auth_token"))
    THEN Redirect(Base(sess), "index", 0)
    ELSE IF method = "POST"
    THEN IF RegisterFormIsValid(form)
         THEN LET response == api_post(raw)
                  r0 == [Base(sess) EXCEPT !.formValidated = TRUE,
                                           !.calls = <<Call("POST", "register/", raw)>>,
                                           !.resp = response]
                  error_msg == IF ResponseTruthy(response) /\ JsonParses(response)
                               THEN StrOfJson(response.body)
                               ELSE MsgRegisterError
              IN  IF ResponseTruthy(response) /\ response.status_code = 201
                  THEN Redirect(AddFlash(r0, "success", MsgRegisterOk), "login", 0)
                  ELSE Render(AddFlash(r0, "error", error_msg), "register.html")
         ELSE Render([Base(sess) EXCEPT !.formValidated = TRUE], "register.html")
    ELSE Render(Base(sess), "register.html")

\* mutant: only the token is deleted from the session
logout_view_TokenOnly(sess) ==
    Redirect(AddFlash([Base(sess) EXCEPT
                          !.session = [k \in (DOMAIN sess) \ {"auth_token"} |-> sess[k]]],
                      "info", MsgLogout),
             "index", 0)

\* logout_view(request)
logout_view(sess) ==
    Redirect(AddFlash([Base(sess) EXCEPT !.session = SessionFlush],
                      "info", MsgLogout),
             "index", 0)

\* mutant: only the first favorite is compared
AnyFavorite_FirstOnly(items, book_id) ==
    IF items = <<>> THEN "False"
    ELSE LET f == Head(items)
         IN  IF f.idk = "missing" THEN "KeyError"
             ELSE IF f.idk = "int" /\ f.id = book_id THEN "True"
             ELSE "False"

\* any(f['id'] == int(book_id) for f in my_favs): scans in order, stops at the
\* first match, raises KeyError at an entry without id.
RECURSIVE AnyFavorite(_, _)
AnyFavorite(items, book_id) ==
    IF items = <<>> THEN "False"
    ELSE LET f == Head(items)
         IN  IF f.idk = "missing" THEN "KeyError"
             ELSE IF f.idk = "int" /\ f.id = book_id THEN "True"
             ELSE AnyFavorite(Tail(items), book_id)

\* mutant: the favorites are fetched before the book is looked at
book_detail_FavsFirst(sess, book_id, rawBook, rawFavs) ==
    LET book == api_get(rawBook)
        r0 == [Base(sess) EXCEPT !.calls = <<Call("GET", "local/{id}/", rawBook)>>,
                                 !.book = book,
                                 !.user = SessionGet(sess, "user_data")]
        my_favs == api_get(rawFavs)
        r1 == [r0 EXCEPT !.calls = Append(@, Call("GET", "local/my_favorites/", rawFavs)),
                         !.favs = my_favs]
    IN  IF book.t = "raise" THEN Raise([r0 EXCEPT !.user = PyNone], "ValueError")
        ELSE IF Truthy(SessionGet(sess, "auth_token"))
        THEN IF my_favs.t = "raise" THEN Raise([r1 EXCEPT !.user = PyNone], "ValueError")
             ELSE IF ~PayloadTruthy(book)
             THEN Redirect(AddFlash([r1 EXCEPT !.user = PyNone], "error", MsgNotFound),
                           "index", 0)
             ELSE IF PayloadTruthy(my_favs)
             THEN LET found == AnyFavorite(my_favs.items, book_id)
                  IN  IF found = "KeyError" THEN Raise(r1, "KeyError")
                      ELSE Render([r1 EXCEPT !.is_favorite = (found = "True")],
                                  "book_detail.html")
             ELSE Render(r1, "book_detail.html")
        ELSE IF ~PayloadTruthy(book)
        THEN Redirect(AddFlash([r0 EXCEPT !.user = PyNone], "error", MsgNotFound),
                      "index", 0)
        ELSE Render(r0, "book_detail.html")

\* book_detail(request, book_id)
book_detail(sess, book_id, rawBook, rawFavs) ==
    LET book == api_get(rawBook)
        r0 == [Base(sess) EXCEPT !.calls = <<Call("GET", "local/{id}/", rawBook)>>,
                                 !.book = book,
                                 !.user = SessionGet(sess, "user_data")]
    IN  IF book.t = "raise" THEN Raise([r0 EXCEPT !.user = PyNone], "ValueError")
        ELSE IF ~PayloadTruthy(book)
        THEN Redirect(AddFlash([r0 EXCEPT !.user = PyNone], "error", MsgNotFound),
                      "index", 0)
        ELSE IF Truthy(SessionGet(sess, "auth_token"))
        THEN LET my_favs == api_get(rawFavs)
                 r1 == [r0 EXCEPT !.calls = Append(@, Call("GET", "local/my_favorites/", rawFavs)),
                                  !.favs = my_favs]
             IN  IF my_favs.t = "raise" THEN Raise([r1 EXCEPT !.user = PyNone], "ValueError")
                 ELSE IF PayloadTruthy(my_favs)
                 THEN LET found == AnyFavorite(my_favs.items, book_id)
                      IN  IF found = "KeyError" THEN Raise(r1, "KeyError")
                          ELSE Render([r1 EXCEPT !.is_favorite = (found = "True")],
                                      "book_detail.html")
                 ELSE Render(r1, "book_detail.html")
        ELSE Render(r0, "book_detail.html")

\* favorites_view(request)
favorites_view(sess, raw) ==
    IF ~Truthy(SessionGet(sess, "auth_token"))
    THEN Redirect(AddFlash(Base(sess), "warning", MsgFavLogin), "login", 0)
    ELSE LET books == api_get(raw)
             r0 == [Base(sess) EXCEPT !.calls = <<Call("GET", "local/my_favorites/", raw)>>,
                                      !.books = books,
                                      !.user = SessionGet(sess, "user_data")]
         IN  IF books.t = "raise" THEN Raise([r0 EXCEPT !.user = PyNone], "ValueError")
             ELSE IF books.t = "None"
             THEN Render(AddFlash(r0, "error", MsgFavError), "favorites.html")
             ELSE Render([r0 EXCEPT !.ctxBooks = books.items], "favorites.html")

\* mutant: the login check is missing
toggle_favorite_NoGate(sess, book_id, raw) ==
    LET response == api_post(raw)
        r0 == [Base(sess) EXCEPT !.calls = <<Call("POST", "local/{id}/toggle_favorite/", raw)>>,
                                 !.resp = response]
    IN  IF ResponseTruthy(response) /\ response.status_code \in {200, 201}
        THEN IF ~JsonParses(response) THEN Raise(r0, "JSONDecodeError")
             ELSE IF ~IsMapping(response) THEN Raise(r0, "AttributeError")
             ELSE LET data == response.body
                      msg == IF data.hasMessage THEN data.message ELSE MsgToggleDefault
                  IN  Redirect(AddFlash(r0, "success", msg), "book_detail", book_id)
        ELSE Redirect(AddFlash(r0, "error", MsgToggleError), "book_detail", book_id)

\* toggle_favorite(request, book_id)
toggle_favorite(sess, book_id, raw) ==
    IF ~Truthy(SessionGet(sess, "auth_token"))
    THEN Redirect(AddFlash(Base(sess), "warning", MsgToggleLogin), "login", 0)
    ELSE LET response == api_post(raw)
             r0 == [Base(sess) EXCEPT !.calls = <<Call("POST", "local/{id}/toggle_favorite/", raw)>>,
                                      !.resp = response]
         IN  IF ResponseTruthy(response) /\ response.status_code \in {200, 201}
             THEN IF ~JsonParses(response) THEN Raise(r0, "JSONDecodeError")
                  ELSE IF ~IsMapping(response) THEN Raise(r0, "AttributeError")
                  ELSE LET data == response.body
                           msg == IF data.hasMessage THEN data.message ELSE MsgToggleDefault
                       IN  Redirect(AddFlash(r0, "success", msg), "book_detail", book_id)
             ELSE Redirect(AddFlash(r0, "error", MsgToggleError), "book_detail", book_id)

(***************************************************************************)
(* Requests and upstream answers the environment chooses from.             *)
(***************************************************************************)
Methods == {"GET", "POST"}
Usernames == {"", "alice", "bob"}
Passwords == {"", "pw"}
Emails == {"", "alice@example.com"}
LoginForms == {Form(u, "", p) : u \in Usernames, p \in Passwords}
RegisterForms == {Form(u, e, p) : u \in Usernames, e \in Emails, p \in Passwords}
BookIds == 1..MaxBookId

Tokens == {PyNone, PyStr(""), PyStr("tok1")}
LoginBodies == {NonJsonBody, JsonListBody, EmptyObject} \cup {TokenObject(tk) : tk \in Tokens}
RegisterBodies == {NonJsonBody, EmptyObject, ErrorObject("Usuario existe")}
ToggleBodies == {NonJsonBody, JsonListBody, EmptyObject, MessageObject("Agregado a favoritos")}
PostRaws(bodies) == {TransportError} \cup {Response(st, b) : st \in Statuses, b \in bodies}

Entries == {Entry("int", i) : i \in BookIds} \cup {Entry("str", 1), Entry("missing", 0)}
EntryLists == UNION {[1..n -> Entries] : n \in 0..MaxListLen}
GetRaws(payloads) ==
    {TransportError} \cup {Response(st, JsonNull) : st \in {404, 500}}
    \cup {Response(200, p) : p \in payloads \cup {JsonNull, NonJsonBody}}
ListRaws == GetRaws({ListPayload(items) : items \in EntryLists})
BookRaws(book_id) == GetRaws({EmptyBook, BookObject(book_id)})

(***************************************************************************)
(* State: the server-side session of the one browser, and the record of    *)
(* the last request: what was asked, the session it found, and what the    *)
(* handler produced.                                                       *)
(***************************************************************************)
\* session: request.session, the keys stored for the browser
\* last: the last request and the response its handler gave
\* pending: the flash messages added by earlier requests and not yet displayed
VARIABLES session, last, pending
vars == <<session, last, pending, json_error_is_request_exception>>

Request(handler, method, form, book_id, sess) ==
    [handler |-> handler, method |-> method, form |-> form,
     book_id |-> book_id, sessionBefore |-> sess]

NoForm == Form("", "", "")

\* The handler's result becomes the state: the session is saved, the
\* response and the request are recorded.  Spec leaves the message storage
\* out (last.flashed holds what the request itself added); SpecFlash below
\* follows it.
Commit(req, res) ==
    /\ session' = res.session
    /\ last' = res @@ req
    /\ UNCHANGED <<pending, json_error_is_request_exception>>

Init ==
    /\ session = SessionFlush
    /\ last = Base(SessionFlush) @@ Request("none", "GET", NoForm, 0, SessionFlush)
    /\ pending = <<>>
    /\ json_error_is_request_exception \in BOOLEAN

\* path('', views.index)
Index ==
    \E raw \in ListRaws :
        Commit(Request("index", "GET", NoForm, 0, session), index(session, raw))

\* The upstream answers the calls that are made: the answers are drawn from
\* `raws` when the handler run `probe` reaches its upstream call, and there
\* is nothing to draw when it does not.
AnswersFor(probe, raws) == IF probe.calls # <<>> THEN raws ELSE {TransportError}

\* path('login/', views.login_view)
LoginView ==
    \E method \in Methods, form \in LoginForms :
        \E raw \in AnswersFor(login_view(session, method, form, TransportError),
                              PostRaws(LoginBodies)) :
            Commit(Request("login_view", method, form, 0, session),
                   login_view(session, method, form, raw))

\* path('register/', views.register_view)
RegisterView ==
    \E method \in Methods, form \in RegisterForms :
        \E raw \in AnswersFor(register_view(session, method, form, TransportError),
                              PostRaws(RegisterBodies)) :
            Commit(Request("register_view", method, form, 0, session),
                   register_view(session, method, form, raw))

\* path('logout/', views.logout_view)
LogoutView ==
    \E method \in Methods :
        Commit(Request("logout_view", method, NoForm, 0, session), logout_view(session))

\* whether the handler, given this answer for the book, goes on to ask for
\* the favorites: the upstream answers the calls that are made
AsksFavorites(sess, book_id, rawBook) ==
    Len(book_detail(sess, book_id, rawBook, TransportError).calls) = 2

\* path('book/<int:book_id>/', views.book_detail)
BookDetail ==
    \E book_id \in BookIds :
        \E rawBook \in BookRaws(book_id) :
            \E rawFavs \in (IF AsksFavorites(session, book_id, rawBook)
                            THEN ListRaws ELSE {TransportError}) :
                Commit(Request("book_detail", "GET", NoForm, book_id, session),
                       book_detail(session, book_id, rawBook, rawFavs))

\* path('favorites/', views.favorites_view)
FavoritesView ==
    \E raw \in AnswersFor(favorites_view(session, TransportError), ListRaws) :
        Commit(Request("favorites_view", "GET", NoForm, 0, session),
               favorites_view(session, raw))

\* path('book/<int:book_id>/favorite/', views.toggle_favorite)
ToggleFavorite ==
    \E method \in Methods, book_id \in BookIds :
        \E raw \in AnswersFor(toggle_favorite(session, book_id, TransportError),
                              PostRaws(ToggleBodies)) :
            Commit(Request("toggle_favorite", method, NoForm, book_id, session),
                   toggle_favorite(session, book_id, raw))

Next ==
    \/ Index
    \/ LoginView
    \/ RegisterView
    \/ LogoutView
    \/ BookDetail
    \/ FavoritesView
    \/ ToggleFavorite

Spec == Init /\ [][Next]_vars

(***************************************************************************)
(* The same requests with the message storage followed: a message added    *)
(* before a redirect stays in the storage and is displayed, oldest first,  *)
(* by the next rendered page, which empties the storage.  The requests and *)
(* upstream answers are drawn from smaller sets.                           *)
(***************************************************************************)
\* the messages a rendered page displays
Displayed(stored, flashed) == stored \o flashed

FlashForm == Form("alice", "alice@example.com", "pw")
FlashListRaws ==
    {TransportError, Response(200, ListPayload(<<>>)),
     Response(200, ListPayload(<<Entry("int", 1)>>))}
FlashLoginRaws ==
    {TransportError, Response(200, TokenObject(PyStr("tok1"))), Response(401, EmptyObject)}
FlashRegisterRaws ==
    {Response(201, EmptyObject), Response(401, ErrorObject("Usuario existe"))}
FlashBookRaws == {TransportError, Response(200, BookObject(1))}
FlashToggleRaws ==
    {TransportError, Response(200, MessageObject("Agregado a favoritos")),
     Response(500, EmptyObject)}

\* The response leaves through the message middleware: a render displays
\* and empties the storage, a redirect adds the request's messages to it.
CommitFlash(req, res) ==
    /\ res.kind = "redirect" => Len(pending) + Len(res.flashed) <= MaxPending
    /\ session' = res.session
    /\ pending' = CASE res.kind = "render" -> <<>>
                    [] res.kind = "redirect" -> pending \o res.flashed
                    [] OTHER -> pending
    /\ last' = res @@ req @@
               [pendingBefore |-> pending,
                shown |-> IF res.kind = "render"
                          THEN Displayed(pending, res.flashed) ELSE <<>>]
    /\ UNCHANGED json_error_is_request_exception

InitFlash ==
    /\ session = SessionFlush
    /\ last = Base(SessionFlush) @@ Request("none", "GET", NoForm, 0, SessionFlush)
              @@ [pendingBefore |-> <<>>, shown |-> <<>>]
    /\ pending = <<>>
    /\ json_error_is_request_exception \in BOOLEAN

IndexFlash ==
    \E raw \in FlashListRaws :
        CommitFlash(Request("index", "GET", NoForm, 0, session), index(session, raw))

LoginViewFlash ==
    \E method \in Methods, raw \in FlashLoginRaws :
        CommitFlash(Request("login_view", method, FlashForm, 0, session),
                    login_view(session, method, FlashForm, raw))

RegisterViewFlash ==
    \E method \in Methods, raw \in FlashRegisterRaws :
        CommitFlash(Request("register_view", method, FlashForm, 0, session),
                    register_view(session, method, FlashForm, raw))

LogoutViewFlash ==
    CommitFlash(Request("logout_view", "POST", NoForm, 0, session), logout_view(session))

BookDetailFlash ==
    \E rawBook \in FlashBookRaws :
        \E rawFavs \in (IF AsksFavorites(session, 1, rawBook)
                        THEN FlashListRaws ELSE {TransportError}) :
            CommitFlash(Request("book_detail", "GET", NoForm, 1, session),
                        book_detail(session, 1, rawBook, rawFavs))

FavoritesViewFlash ==
    \E raw \in FlashListRaws :
        CommitFlash(Request("favorites_view", "GET", NoForm, 0, session),
                    favorites_view(session, raw))

ToggleFavoriteFlash ==
    \E raw \in FlashToggleRaws :
        CommitFlash(Request("toggle_favorite", "POST", NoForm, 1, session),
                    toggle_favorite(session, 1, raw))

NextFlash ==
    \/ IndexFlash
    \/ LoginViewFlash
    \/ RegisterViewFlash
    \/ LogoutViewFlash
    \/ BookDetailFlash
    \/ FavoritesViewFlash
    \/ ToggleFavoriteFlash

SpecFlash == InitFlash /\ [][NextFlash]_vars

(***************************************************************************)
(* Properties.                                                             *)
(***************************************************************************)
\* the handler's own test of the session: request.session.get('auth_token')
HadToken == Truthy(SessionGet(last.sessionBefore, "auth_token"))
SessionUnchanged == session = last.sessionBefore
RedirectedTo(route, arg) ==
    last.kind = "redirect" /\ last.target = route /\ last.arg = arg
Rendered(template) == last.kind = "render" /\ last.target = template

\* C1: a request to login_view or register_view that finds a token in the
\* session is answered with a redirect to index, whatever its method and
\* body; no form is validated, no upstream call is made and the session is
\* left as it was.
C1_AuthenticatedRedirect ==
    (last.handler \in {"login_view", "register_view"} /\ HadToken)
        => /\ RedirectedTo("index", 0)
           /\ ~last.formValidated
           /\ last.calls = <<>>
           /\ last.flashed = <<>>
           /\ SessionUnchanged

C1_Witness ==
    /\ last.handler = "login_view"
    /\ HadToken
    /\ last.method = "POST"
    /\ LoginFormIsValid(last.form)
    /\ RedirectedTo("index", 0)

\* C2: a POST to login_view from an unauthenticated session with a valid
\* form, answered upstream with status 200 and a body holding a token
\* member, leaves auth_token equal to that token and user_data.username
\* equal to the submitted username, and redirects to index.
C2_LoginStoresToken ==
    (/\ last.handler = "login_view"
     /\ ~HadToken
     /\ last.resp.t = "response"
     /\ last.resp.status_code = 200
     /\ last.resp.body.t = "dict"
     /\ last.resp.body.hasToken)
        => /\ "auth_token" \in DOMAIN session
           /\ session["auth_token"] = last.resp.body.token
           /\ "user_data" \in DOMAIN session
           /\ session["user_data"] = UserData(last.form.username)
           /\ RedirectedTo("index", 0)

C2_Witness ==
    /\ last.handler = "login_view"
    /\ last.method = "POST"
    /\ last.form.username = "bob"
    /\ last.resp.t = "response"
    /\ last.resp.status_code = 200
    /\ last.resp.body.t = "dict"
    /\ last.resp.body.hasToken
    /\ session["auth_token"] = PyStr("tok1")
    /\ session["user_data"] = UserData("bob")

\* the message tests.py expects after a 200 answer without token
MsgLoginProcess == "Error al procesar"

\* C3: a POST to login_view with a valid form, answered upstream with status
\* 200 and a body without token member, flashes the 'error processing
\* response' message and renders the login form again; neither auth_token
\* nor user_data is written to the session.
C3_NoTokenRerenders ==
    (/\ last.handler = "login_view"
     /\ last.resp.t = "response"
     /\ last.resp.status_code = 200
     /\ last.resp.body.t = "dict"
     /\ ~last.resp.body.hasToken)
        => /\ Rendered("login.html")
           /\ last.flashed = <<Flash("error", MsgLoginProcess)>>
           /\ SessionUnchanged

\* C4: a POST to login_view from an unauthenticated session whose upstream
\* login call gives no response or a status other than 200 leaves the
\* session as it was, without a token, and renders the login form again with
\* the 'incorrect credentials' error flash.
C4_LoginRejected ==
    (/\ last.handler = "login_view"
     /\ ~HadToken
     /\ last.resp.t # "notcalled"
     /\ (last.resp.t = "None" \/ last.resp.status_code # 200))
        => /\ SessionUnchanged
           /\ ~Truthy(SessionGet(session, "auth_token"))
           /\ ("auth_token" \notin DOMAIN last.sessionBefore
                  => "auth_token" \notin DOMAIN session)
           /\ Rendered("login.html")
           /\ last.flashed = <<Flash("error", MsgLoginBad)>>

C4_Witness ==
    /\ last.handler = "login_view"
    /\ last.method = "POST"
    /\ last.resp.t = "response"
    /\ last.resp.status_code = 201
    /\ last.resp.body.t = "dict"
    /\ last.resp.body.hasToken
    /\ Rendered("login.html")
    /\ DOMAIN session = {}

\* C5: after a request to logout_view, whatever the session held before, the
\* session holds neither auth_token nor user_data and the response is a
\* redirect to index.
C5_LogoutClears ==
    last.handler = "logout_view"
        => /\ "auth_token" \notin DOMAIN session
           /\ "user_data" \notin DOMAIN session
           /\ RedirectedTo("index", 0)

C5_Witness ==
    /\ last.handler = "logout_view"
    /\ HadToken
    /\ "user_data" \in DOMAIN last.sessionBefore
    /\ DOMAIN session = {}
    /\ RedirectedTo("index", 0)

\* C6: favorites_view and toggle_favorite called without a token in the
\* session redirect to login with their warning flash, make no upstream call
\* and leave the session as it was.
C6_LoginRequired ==
    (last.handler \in {"favorites_view", "toggle_favorite"} /\ ~HadToken)
        => /\ RedirectedTo("login", 0)
           /\ last.flashed = <<Flash("warning",
                                     IF last.handler = "favorites_view"
                                     THEN MsgFavLogin ELSE MsgToggleLogin)>>
           /\ last.calls = <<>>
           /\ SessionUnchanged

C6_Witness ==
    /\ last.handler = "toggle_favorite"
    /\ ~HadToken
    /\ last.method = "POST"
    /\ RedirectedTo("login", 0)

\* some element of the fetched favorites list has the integer id of the path
InFavorites(favs, book_id) ==
    /\ favs.t = "list"
    /\ \E i \in 1..Len(favs.items) :
           favs.items[i].idk = "int" /\ favs.items[i].id = book_id

\* C7: in every rendered book_detail page of an authenticated session,
\* is_favorite is true exactly when some element of the fetched favorites
\* list has id equal to the integer path id, so it is false when the
\* favorites fetch fails; in every rendered page of an unauthenticated
\* session is_favorite is false and the favorites list is not fetched.
C7_IsFavorite ==
    (last.handler = "book_detail" /\ Rendered("book_detail.html"))
        => IF HadToken
           THEN /\ last.favs.t # "notcalled"
                /\ last.is_favorite <=> InFavorites(last.favs, last.book_id)
           ELSE /\ ~last.is_favorite
                /\ last.favs.t = "notcalled"
                /\ Len(last.calls) = 1

C7_Witness ==
    /\ last.handler = "book_detail"
    /\ Rendered("book_detail.html")
    /\ HadToken
    /\ last.favs.t = "list"
    /\ Len(last.favs.items) = 2
    /\ last.favs.items[1] # Entry("int", last.book_id)
    /\ last.favs.items[2] = Entry("int", last.book_id)
    /\ last.is_favorite

\* C8: a book_detail request whose book fetch returns None redirects to index
\* with the 'not found' error flash; the detail page is not rendered and the
\* favorites list is not fetched, with or without a token in the session.
C8_BookNotFound ==
    (last.handler = "book_detail" /\ last.book.t = "None")
        => /\ RedirectedTo("index", 0)
           /\ last.flashed = <<Flash("error", MsgNotFound)>>
           /\ last.favs.t = "notcalled"
           /\ Len(last.calls) = 1
           /\ SessionUnchanged

C8_Witness ==
    /\ last.handler = "book_detail"
    /\ HadToken
    /\ last.book.t = "None"
    /\ last.calls[1].raw = TransportError
    /\ RedirectedTo("index", 0)

\* C9: on index and on favorites_view of an authenticated session, an empty
\* list from the upstream is treated like a failed fetch: the page renders
\* with an empty books list and the handler's error flash.
C9_EmptyListFlashes ==
    (/\ \/ last.handler = "index"
        \/ last.handler = "favorites_view" /\ HadToken
     /\ last.books.t = "list"
     /\ last.books.items = <<>>)
        => /\ last.kind = "render"
           /\ last.ctxBooks = <<>>
           /\ last.flashed = <<Flash("error",
                                     IF last.handler = "index"
                                     THEN MsgIndexError ELSE MsgFavError)>>

\* C10: an authenticated toggle_favorite request flashes success (the
\* server's message, else the fallback text) exactly when the upstream
\* status is 200 or 201 and the generic failure otherwise, no response
\* included; it always redirects to book_detail with the same id and leaves
\* the session as it was.
C10_ToggleOutcome ==
    (last.handler = "toggle_favorite" /\ HadToken)
        => LET ok == last.resp.t = "response" /\ last.resp.status_code \in {200, 201}
           IN  /\ RedirectedTo("book_detail", last.book_id)
               /\ SessionUnchanged
               /\ Len(last.flashed) = 1
               /\ ok => last.flashed[1] =
                            Flash("success",
                                  IF last.resp.body.t = "dict" /\ last.resp.body.hasMessage
                                  THEN last.resp.body.message ELSE MsgToggleDefault)
               /\ ~ok => last.flashed[1] = Flash("error", MsgToggleError)

\* C11: a POST to register_view from an unauthenticated session with a valid
\* form flashes success and redirects to login on status 201; every other
\* outcome renders the register form again with one error flash, whose text
\* is the upstream body whenever a response with a parseable body exists and
\* the generic message only for an unparseable body or no response.  The
\* session is not modified.
C11_RegisterOutcome ==
    (/\ last.handler = "register_view"
     /\ ~HadToken
     /\ last.resp.t # "notcalled")
        => /\ SessionUnchanged
           /\ IF last.resp.t = "response" /\ last.resp.status_code = 201
              THEN /\ RedirectedTo("login", 0)
                   /\ last.flashed = <<Flash("success", MsgRegisterOk)>>
              ELSE /\ Rendered("register.html")
                   /\ last.flashed =
                        <<Flash("error",
                                IF last.resp.t = "response" /\ last.resp.body.t # "nonjson"
                                THEN StrOfJson(last.resp.body)
                                ELSE MsgRegisterError)>>

\* what the API client returned for the i-th upstream call of the last request
CallResult(i) ==
    IF last.calls[i].verb = "POST" THEN last.resp
    ELSE IF last.handler = "book_detail"
    THEN (IF i = 1 THEN last.book ELSE last.favs)
    ELSE last.books

\* C12: the API client turns failures into None and does not raise for them:
\* api_get returns None for a transport failure and for an HTTP error status,
\* and the decoded JSON payload otherwise; api_post returns None for a
\* transport failure only and the response object unchanged for every status
\* code, 4xx and 5xx included.
C12_ClientSentinel ==
    \A i \in 1..Len(last.calls) :
        LET raw == last.calls[i].raw
            res == CallResult(i)
        IN  IF last.calls[i].verb = "GET"
            THEN /\ (raw.t = "error" \/ raw.status_code >= 400) => res.t = "None"
                 /\ (raw.t = "response" /\ raw.status_code < 400 /\ raw.body.t # "nonjson")
                       => res = raw.body
            ELSE /\ raw.t = "error" => res.t = "None"
                 /\ raw.t = "response" => res = raw

C12_Witness ==
    /\ last.handler = "toggle_favorite"
    /\ Len(last.calls) = 1
    /\ last.calls[1].raw.t = "response"
    /\ last.calls[1].raw.status_code = 500
    /\ last.resp = last.calls[1].raw

\* C13: no handler lets an exception escape: whatever the session, the form
\* and the upstream answers, every request ends with a rendered page or a
\* redirect.
C13_NoEscapedException ==
    last.handler # "none" => last.kind \in {"render", "redirect"}

ErrorsShown == {i \in 1..Len(last.shown) : last.shown[i].level = "error"}
IndexAfterTransportError ==
    /\ last.handler = "index"
    /\ last.kind = "render"
    /\ last.calls[1].raw = TransportError

\* C14 as claimed: whenever index is rendered after the books fetch failed
\* with a transport error, the page carries an empty books list and exactly
\* one error flash, the 'could not connect' message, whatever requests came
\* before on the session.
C14_ExactlyOneErrorFlash ==
    IndexAfterTransportError
        => /\ last.ctxBooks = <<>>
           /\ Cardinality(ErrorsShown) = 1
           /\ \A i \in ErrorsShown : last.shown[i].text = MsgIndexError

\* C14 as amended: whenever index is rendered after the books fetch failed
\* with a transport error, the page carries an empty books list and exactly
\* one 'could not connect' error flash, added by index itself and displayed
\* after the flashes that earlier redirecting requests left undisplayed; it
\* is the page's only error flash exactly when none of those is an error.
C14_OneConnectFlashAfterPending ==
    IndexAfterTransportError
        => /\ last.ctxBooks = <<>>
           /\ last.flashed = <<Flash("error", MsgIndexError)>>
           /\ last.shown = last.pendingBefore \o <<Flash("error", MsgIndexError)>>
           /\ Cardinality({i \in 1..Len(last.shown) :
                              last.shown[i].text = MsgIndexError}) = 1
           /\ (Cardinality(ErrorsShown) = 1) <=>
                 (\A i \in 1..Len(last.pendingBefore) :
                      last.pendingBefore[i].level # "error")
           /\ pending = <<>>

C14_Witness ==
    /\ IndexAfterTransportError
    /\ last.pendingBefore = <<Flash("error", MsgNotFound)>>
    /\ last.shown = <<Flash("error", MsgNotFound), Flash("error", MsgIndexError)>>

\* C15: after any sequence of requests from an empty session, user_data is
\* in the session exactly when a usable (non-empty, non-null) auth_token is:
\* the session is never left with user display data and no token; and only a
\* login answered with success or a logout changes the session.
C15_SessionConsistent ==
    /\ ("user_data" \in DOMAIN session) <=> Truthy(SessionGet(session, "auth_token"))
    /\ session # last.sessionBefore
          => \/ last.handler = "logout_view"
             \/ /\ last.handler = "login_view"
                /\ last.resp.t = "response"
                /\ last.resp.status_code = 200

====
